---- MODULE Spec2Model ----
(***************************************************************************)
(* Sales-report pipeline of apps/lightspeed: the paginated fetch           *)
(* (_paged_search_sales), SalesReportProcessor.generate_report with its    *)
(* deduplication, sale filter and aggregation (_calculate_metrics,         *)
(* _format_totals), and the view get_sales that carries its own copy of    *)
(* the same pipeline.                                                      *)
(*                                                                         *)
(* Representation.  A JSON scalar is a record [t, n, s]: t is the JSON     *)
(* type, n the number (or 0/1 for a boolean), s the string.  A missing key *)
(* and a JSON null are both what dict.get returns for them: Null.          *)
(* Amounts are exact decimals counted in thousandths of a currency unit    *)
(* (1.0 = 1000), so round(v, 2) is rounding to a multiple of 10.  Binary   *)
(* floating point is modelled apart, for one accumulator, in FloatSpec.    *)
(*                                                                         *)
(* Specifications.  Spec: one report request over small data sets.         *)
(* FetchSpec: the same steps over sources of several pages.  WindowSpec:   *)
(* the three window functions over a calendar.  FloatSpec: one total       *)
(* accumulated in floating point.  WebhookSpec: sequential calls of        *)
(* ensure_webhook (middleware/lightspeed_shopify.py).  CrudSpec: two       *)
(* callers of CRUD.get and CRUD.update on one row (core/crud.py).          *)
(* RunsSpec: two report requests in flight at once.                        *)
(***************************************************************************)
EXTENDS Integers, Sequences, FiniteSets, TLC

\* ------------------------------------------------------------------------
\* Bounds of the model
\* ------------------------------------------------------------------------
\* records held by the external source for the requested interval
MaxSales == 2
\* page_size of _paged_search_sales (1000 in the program)
PageSize == 2
\* max_pages of _paged_search_sales (1000 in the program)
MaxPages == 3

\* ------------------------------------------------------------------------
\* JSON scalars
\* ------------------------------------------------------------------------
Null == [t |-> "null", n |-> 0, s |-> ""]
Num(v) == [t |-> "num", n |-> v, s |-> ""]
Str(x) == [t |-> "str", n |-> 0, s |-> x]
Bool(b) == [t |-> "bool", n |-> (IF b THEN 1 ELSE 0), s |-> ""]

\* Python truth value of a JSON scalar
Truthy(v) ==
  CASE v.t = "null" -> FALSE
    [] v.t = "num" -> v.n # 0
    [] v.t = "str" -> v.s # ""
    [] v.t = "bool" -> v.n = 1

\* float(str): the strings float() accepts, with their value
FloatOfString ==
  [x \in {"0.006", "100.0"} |-> IF x = "0.006" THEN 6 ELSE 100000]

is_true(v) ==
  \/ (v.t = "bool" /\ v.n = 1)
  \/ (v.t = "str" /\ v.s \in {"true", "True", "TRUE"})
  \/ (v.t = "num" /\ v.n = 1000)

money(x) ==
  IF ~Truthy(x) THEN 0
  ELSE CASE x.t = "num" -> x.n
         [] x.t = "bool" -> 1000
         [] x.t = "str" -> IF x.s \in DOMAIN FloatOfString
                            THEN FloatOfString[x.s] ELSE 0

\* round(v, 2): nearest multiple of 10, a tie to the even one
Round2(v) ==
  LET m == v % 10
      lo == v - m
  IN  IF m < 5 THEN lo
      ELSE IF m > 5 THEN lo + 10
      ELSE IF (lo \div 10) % 2 = 0 THEN lo ELSE lo + 10

\* ------------------------------------------------------------------------
\* Timestamps
\* ------------------------------------------------------------------------
\* datetime.fromisoformat after Z -> +00:00: the strings it parses, as hours
\* since 2025-08-08T00:00 UTC (a string without offset is taken as UTC);
\* every other string raises ValueError
IsoHours ==
  [x \in {"2025-08-08T14:00:00Z", "2025-08-09T02:00:00+00:00",
          "2025-08-09T14:00:00", "2025-08-08T02:00:00Z"} |->
     CASE x = "2025-08-08T14:00:00Z" -> 14
       [] x = "2025-08-09T02:00:00+00:00" -> 26
       [] x = "2025-08-09T14:00:00" -> 38
       [] x = "2025-08-08T02:00:00Z" -> 2]

\* UTC offset of America/New_York in August, in hours
TzOffsetHours == -4

\* strftime("%Y-%m-%d") of a local hour count
DayKey(local) ==
  CASE local \div 24 = -1 -> "2025-08-07"
    [] local \div 24 = 0 -> "2025-08-08"
    [] local \div 24 = 1 -> "2025-08-09"

\* _to_local_dt: [raised, none, local]
to_local_dt(iso) ==
  IF ~Truthy(iso) THEN [raised |-> FALSE, none |-> TRUE, local |-> 0]
  ELSE IF iso.t # "str"
    THEN [raised |-> TRUE, none |-> FALSE, local |-> 0]
  ELSE IF iso.s \notin DOMAIN IsoHours
    THEN [raised |-> FALSE, none |-> TRUE, local |-> 0]
  ELSE [raised |-> FALSE, none |-> FALSE,
        local |-> IsoHours[iso.s] + TzOffsetHours]

\* ------------------------------------------------------------------------
\* Deduplication and sale filter
\* ------------------------------------------------------------------------
\* dict key of an id: True == 1 and False == 0 as Python dict keys
KeyOf(v) == IF v.t = "bool" THEN Num(v.n * 1000) ELSE v

\* mutant of DictPut: every record is appended, a repeated key is not merged
DictPutAppend(d, s) == Append(d, s)

\* dict[k] = s: a key already present keeps its position and takes the new
\* value, a new key is appended
DictPut(d, s) ==
  IF \E p \in 1..Len(d) : KeyOf(d[p].id) = KeyOf(s.id)
  THEN [p \in 1..Len(d) |-> IF KeyOf(d[p].id) = KeyOf(s.id) THEN s ELSE d[p]]
  ELSE Append(d, s)

RECURSIVE DedupFrom(_, _, _)
DedupFrom(sales, i, d) ==
  IF i > Len(sales) THEN d
  ELSE DedupFrom(sales, i + 1,
                 IF Truthy(sales[i].id) THEN DictPut(d, sales[i]) ELSE d)

\* mutant of dedup: the records without a truthy id are kept
dedup_keeps_falsy(sales) ==
  DedupFrom(sales, 1, <<>>) \o SelectSeq(sales, LAMBDA s : ~Truthy(s.id))

\* list({s.get("id"): s for s in sales if s.get("id")}.values())
dedup(sales) == DedupFrom(sales, 1, <<>>)

IsStr(v, x) == v.t = "str" /\ v.s = x

\* mutant of keeps: the ONACCOUNT_CLOSED rule ignores the state
keeps_onaccount_any_state(s) ==
  IF IsStr(s.status, "SAVED") \/ IsStr(s.status, "VOIDED") THEN FALSE
  ELSE IF IsStr(s.status, "ONACCOUNT_CLOSED") THEN FALSE
  ELSE IF IsStr(s.state, "voided") THEN FALSE
  ELSE TRUE

\* mutant of keeps: VOIDED is missing from the first rule
keeps_voided(s) ==
  IF IsStr(s.status, "SAVED") THEN FALSE
  ELSE IF IsStr(s.status, "ONACCOUNT_CLOSED") /\ ~IsStr(s.state, "closed")
    THEN FALSE
  ELSE IF IsStr(s.state, "voided") THEN FALSE
  ELSE TRUE

\* body of the loop of _filter_sales: TRUE when the sale is appended
keeps(s) ==
  IF IsStr(s.status, "SAVED") \/ IsStr(s.status, "VOIDED") THEN FALSE
  ELSE IF IsStr(s.status, "ONACCOUNT_CLOSED") /\ ~IsStr(s.state, "closed")
    THEN FALSE
  ELSE IF IsStr(s.state, "voided") THEN FALSE
  ELSE TRUE

filter_sales(sales_unique) == SelectSeq(sales_unique, keeps)

\* Counter(f(s) for s in sales_unique), as the pairs <<value, count>>
CounterOf(seq, field) ==
  LET vals == {seq[i][field] : i \in 1..Len(seq)}
  IN  {<<v, Cardinality({i \in 1..Len(seq) : seq[i][field] = v})>> : v \in vals}

\* ------------------------------------------------------------------------
\* Aggregation
\* ------------------------------------------------------------------------
BlankTotals ==
  [gross_sales |-> 0, returns_sales |-> 0, gross_tax |-> 0, returns_tax |-> 0,
   gross_cost |-> 0, returns_cost |-> 0, gross_profit |-> 0,
   returns_profit |-> 0, total_discount |-> 0, return_lines_seen |-> 0,
   negative_lines_seen |-> 0]

blank_bucket ==
  [count_sales_gross |-> 0, count_sales_net |-> 0,
   gross_sales |-> 0, gross_tax |-> 0, gross_cost |-> 0, gross_profit |-> 0,
   returns_sales |-> 0, returns_tax |-> 0, returns_cost |-> 0,
   returns_profit |-> 0,
   net_sales |-> 0, net_tax |-> 0, net_cost |-> 0, net_profit |-> 0]

\* _acc_bucket and _acc_totals add to the same four keys of their target
AccKind(r, kind, sales_amt, tax_amt, cost_amt) ==
  IF kind = "gross"
  THEN [r EXCEPT !.gross_sales = @ + sales_amt, !.gross_tax = @ + tax_amt,
                 !.gross_cost = @ + cost_amt,
                 !.gross_profit = @ + (sales_amt - cost_amt)]
  ELSE [r EXCEPT !.returns_sales = @ + sales_amt, !.returns_tax = @ + tax_amt,
                 !.returns_cost = @ + cost_amt,
                 !.returns_profit = @ + (sales_amt - cost_amt)]

\* mutant of acc_bucket: the tax of a line is not added to the bucket
acc_bucket_skip_tax(bucket, kind, sales_amt, tax_amt, cost_amt) ==
  AccKind(bucket, kind, sales_amt, 0, cost_amt)

acc_bucket(bucket, kind, sales_amt, tax_amt, cost_amt) ==
  AccKind(bucket, kind, sales_amt, tax_amt, cost_amt)

acc_totals(totals, kind, sales_amt, tax_amt, cost_amt) ==
  AccKind(totals, kind, sales_amt, tax_amt, cost_amt)

\* mutant of kind_of: only the return flag and a negative price make a
\* line a return
kind_of_flag_or_price(item) ==
  IF is_true(item.is_return) \/ money(item.total_price) < 0
  THEN "returns" ELSE "gross"

\* "returns" or "gross" for one line item
kind_of(item) ==
  LET is_return == is_true(item.is_return)
      is_negative == \/ money(item.quantity) < 0
                     \/ money(item.total_price) < 0
                     \/ money(item.total_tax) < 0
                     \/ money(item.total_cost) < 0
  IN  IF is_return \/ is_negative THEN "returns" ELSE "gross"

\* mutant of line_step: any line marks the sale as having a gross line
line_step_any_line_is_positive(a, item) ==
  LET is_return == is_true(item.is_return)
      is_negative == \/ money(item.quantity) < 0
                     \/ money(item.total_price) < 0
                     \/ money(item.total_tax) < 0
                     \/ money(item.total_cost) < 0
      t1 == [a.totals EXCEPT
               !.total_discount = @ + money(item.total_discount),
               !.return_lines_seen = @ + (IF is_return THEN 1 ELSE 0),
               !.negative_lines_seen = @ + (IF is_negative THEN 1 ELSE 0)]
  IN  [totals |-> acc_totals(t1, kind_of(item), money(item.total_price),
                             money(item.total_tax), money(item.total_cost)),
       b_day |-> acc_bucket(a.b_day, kind_of(item), money(item.total_price),
                            money(item.total_tax), money(item.total_cost)),
       had_positive |-> TRUE,
       had_any |-> TRUE]

\* one pass of the inner loop `for item in line_items`
line_step(a, item) ==
  LET qty == money(item.quantity)
      price == money(item.total_price)
      tax == money(item.total_tax)
      cost == money(item.total_cost)
      is_return == is_true(item.is_return)
      is_negative == (qty < 0) \/ (price < 0) \/ (tax < 0) \/ (cost < 0)
      kind == kind_of(item)
      t1 == [a.totals EXCEPT
               !.total_discount = @ + money(item.total_discount),
               !.return_lines_seen = @ + (IF is_return THEN 1 ELSE 0),
               !.negative_lines_seen = @ + (IF is_negative THEN 1 ELSE 0)]
  IN  [totals |-> acc_totals(t1, kind, price, tax, cost),
       b_day |-> acc_bucket(a.b_day, kind, price, tax, cost),
       had_positive |-> a.had_positive \/ kind = "gross",
       had_any |-> TRUE]

RECURSIVE LinesFrom(_, _, _)
LinesFrom(items, i, a) ==
  IF i > Len(items) THEN a
  ELSE LinesFrom(items, i + 1, line_step(a, items[i]))

\* one pass of the outer loop `for s in filtered_sales`; m.raised is set
\* when _to_local_dt raises (AttributeError on a truthy non-string)
sale_step(m, s) ==
  LET dt == to_local_dt(IF Truthy(s.sale_date) THEN s.sale_date ELSE Str(""))
      day == IF dt.none THEN "unknown" ELSE DayKey(dt.local)
      b0 == IF day \in DOMAIN m.daily THEN m.daily[day] ELSE blank_bucket
      a == LinesFrom(s.line_items, 1,
                     [totals |-> m.totals, b_day |-> b0,
                      had_positive |-> FALSE, had_any |-> FALSE])
      b1 == [a.b_day EXCEPT
               !.count_sales_gross = @ + (IF a.had_positive THEN 1 ELSE 0),
               !.count_sales_net = @ + (IF a.had_any THEN 1 ELSE 0)]
  IN  IF m.raised \/ dt.raised THEN [m EXCEPT !.raised = TRUE]
      ELSE [raised |-> FALSE,
            totals |-> a.totals,
            daily |-> [d \in (DOMAIN m.daily) \cup {day} |->
                         IF d = day THEN b1 ELSE m.daily[d]],
            ls_net_sales_sum |-> m.ls_net_sales_sum + money(s.total_price),
            ls_net_tax_sum |-> m.ls_net_tax_sum + money(s.total_tax)]

RECURSIVE SalesFrom(_, _, _)
SalesFrom(sales, i, m) ==
  IF i > Len(sales) THEN m
  ELSE SalesFrom(sales, i + 1, sale_step(m, sales[i]))

\* mutant of finalize_bucket: net_profit is taken from the gross lines only
finalize_bucket_gross_profit(b) ==
  [b EXCEPT !.net_sales = b.gross_sales + b.returns_sales,
            !.net_tax = b.gross_tax + b.returns_tax,
            !.net_cost = b.gross_cost + b.returns_cost,
            !.net_profit = b.gross_sales - b.gross_cost]

finalize_bucket(b) ==
  LET ns == b.gross_sales + b.returns_sales
      nc == b.gross_cost + b.returns_cost
  IN  [b EXCEPT !.net_sales = ns,
                !.net_tax = b.gross_tax + b.returns_tax,
                !.net_cost = nc,
                !.net_profit = ns - nc]

\* every float of the bucket rounded; the two counts are ints and stay
round_bucket(b) ==
  [k \in DOMAIN b |->
     IF k \in {"count_sales_gross", "count_sales_net"} THEN b[k]
     ELSE Round2(b[k])]

\* every float of the totals rounded; the two line counters are ints
round_totals(t) ==
  [k \in DOMAIN t |->
     IF k \in {"return_lines_seen", "negative_lines_seen"} THEN t[k]
     ELSE Round2(t[k])]

BlankMetrics ==
  [raised |-> FALSE, totals |-> BlankTotals,
   daily |-> [d \in {} |-> blank_bucket],
   ls_net_sales_sum |-> 0, ls_net_tax_sum |-> 0]

\* the accumulators when the loops are over, before finalisation and rounding
accumulate(filtered_sales) == SalesFrom(filtered_sales, 1, BlankMetrics)

\* the end of _calculate_metrics on the accumulators m: finalize and round
\* every bucket, round the totals
finish_metrics(m) ==
  IF m.raised THEN [BlankMetrics EXCEPT !.raised = TRUE]
  ELSE [m EXCEPT
          !.totals = round_totals(m.totals),
          !.daily = [d \in DOMAIN m.daily |->
                       round_bucket(finalize_bucket(m.daily[d]))]]

\* _calculate_metrics: (totals, daily_sorted, ls_net_sales_sum, ls_net_tax_sum)
calculate_metrics(filtered_sales) == finish_metrics(accumulate(filtered_sales))

\* _format_totals, on the totals _calculate_metrics has already rounded
format_totals(totals) ==
  [gross |-> [sales |-> totals.gross_sales, tax |-> totals.gross_tax,
              cost |-> totals.gross_cost, profit |-> totals.gross_profit],
   returns |-> [sales |-> totals.returns_sales, tax |-> totals.returns_tax,
                cost |-> totals.returns_cost, profit |-> totals.returns_profit],
   net |-> [sales |-> Round2(totals.gross_sales + totals.returns_sales),
            tax |-> Round2(totals.gross_tax + totals.returns_tax),
            cost |-> Round2(totals.gross_cost + totals.returns_cost),
            profit |-> Round2((totals.gross_sales + totals.returns_sales)
                              - (totals.gross_cost + totals.returns_cost))],
   total_discount |-> totals.total_discount,
   return_lines_seen |-> totals.return_lines_seen,
   negative_lines_seen |-> totals.negative_lines_seen]

\* ------------------------------------------------------------------------
\* Records of the external source
\* ------------------------------------------------------------------------
Line(q, p, x, c, d, r) ==
  [quantity |-> q, total_price |-> p, total_tax |-> x, total_cost |-> c,
   total_discount |-> d, is_return |-> r]

\* the two lines of the end-to-end scenario
LineA == Line(Num(1000), Num(100000), Num(8000), Num(60000), Num(0), Bool(FALSE))
LineB == Line(Num(-1000), Num(-50000), Num(-4000), Num(-30000), Num(0), Bool(TRUE))
\* lines with amounts below one cent
LineS1 == Line(Num(1000), Num(6), Num(4), Num(2), Num(2), Bool(FALSE))
LineS2 == Line(Num(1000), Num(6), Num(4), Num(2), Null, Str("true"))
LineNeg == Line(Num(-1000), Num(-6), Num(-4), Num(-2), Num(0), Null)
\* lines with exactly one negative amount and no return flag
LineNegQty == Line(Num(-1000), Num(6), Num(4), Num(2), Num(2), Bool(FALSE))
LineNegTax == Line(Num(1000), Num(6), Num(-4), Num(2), Num(2), Null)
LineNegCost == Line(Num(1000), Num(6), Num(4), Num(-2), Num(2), Str("false"))
\* amounts that are not JSON numbers
LineOdd == Line(Null, Str("0.006"), Str("n/a"), Bool(TRUE), Str("100.0"), Num(1000))

Sale(id, status, state, date, price, tax, lines) ==
  [id |-> id, status |-> status, state |-> state, sale_date |-> date,
   total_price |-> price, total_tax |-> tax, line_items |-> lines]

D1 == Str("2025-08-08T14:00:00Z")
D2 == Str("2025-08-09T14:00:00")
Completed == Str("COMPLETED")
Closed == Str("closed")

SaleA == Sale(Str("A"), Completed, Closed, D1, Num(108000), Num(8000), <<LineA>>)
SaleB == Sale(Str("B"), Completed, Closed, D1, Num(-54000), Num(-4000), <<LineB>>)

\* companions: the scenario's two sales and two sales of sub-cent lines on
\* two different days
CoreSales ==
  {SaleA, SaleB,
   Sale(Str("a"), Completed, Closed, D1, Num(6), Num(4), <<LineS1>>),
   Sale(Str("b"), Completed, Closed, D2, Num(12), Num(8), <<LineS1, LineS2>>)}

Statuses ==
  {Completed, Str("SAVED"), Str("VOIDED"), Str("ONACCOUNT_CLOSED"), Null}
States == {Closed, Str("voided"), Null}

\* one probe sale next to the companions: every status/state pair, every
\* kind of sale_date, every kind of id, every kind of line
ProbeSales ==
  {Sale(Str("a"), st, sa, D2, Num(6), Num(4), <<LineS1>>) :
     st \in Statuses, sa \in States}
  \cup
  {Sale(Str("b"), Completed, Closed, d, Num(6), Null, <<LineS1>>) :
     d \in {Null, Str(""), Str("yesterday"), Num(20250808),
            Str("2025-08-09T02:00:00+00:00"), Str("2025-08-08T02:00:00Z")}}
  \cup
  {Sale(i, Completed, Closed, D1, Num(6), Num(4), <<LineS1>>) :
     i \in {Null, Str(""), Num(0), Str("c")}}
  \cup
  {Sale(Str("c"), Completed, Closed, D1, Str("n/a"), Num(4), ls) :
     ls \in {<<>>, <<LineNeg>>, <<LineOdd>>, <<LineS2>>, <<LineB, LineA>>,
             <<LineNegQty>>, <<LineS1, LineNegTax>>, <<LineNegCost>>}}

SeqsUpTo(S, n) == UNION {[1..k -> S] : k \in 0..n}

\* what the source holds for the interval: companions and at most one probe
\* sale, which may occur more than once
Datasets ==
  UNION {SeqsUpTo(CoreSales \cup {x}, MaxSales) : x \in ProbeSales}

\* the slice the source returns for offset and page_size
PageOf(src, off, size) ==
  SubSeq(src, off + 1, IF off + size < Len(src) THEN off + size ELSE Len(src))

\* ------------------------------------------------------------------------
\* Calendar and report windows
\* ------------------------------------------------------------------------
\* number of years after 2024 the calendar of the inputs covers
YearSpan == 1

Years == 2024..(2024 + YearSpan)

IsLeap(y) == (y % 4 = 0 /\ y % 100 # 0) \/ y % 400 = 0

DaysInMonth(y, m) ==
  IF m = 2 THEN (IF IsLeap(y) THEN 29 ELSE 28)
  ELSE IF m \in {4, 6, 9, 11} THEN 30 ELSE 31

\* a local calendar date; a datetime at local midnight is named by its date
Date(y, m, d) == [y |-> y, m |-> m, d |-> d]

RECURSIVE DaysBeforeYear(_)
DaysBeforeYear(y) ==
  IF y <= 2024 THEN 0
  ELSE DaysBeforeYear(y - 1) + (IF IsLeap(y - 1) THEN 366 ELSE 365)

RECURSIVE DaysBeforeMonth(_, _)
DaysBeforeMonth(y, m) ==
  IF m <= 1 THEN 0 ELSE DaysBeforeMonth(y, m - 1) + DaysInMonth(y, m - 1)

\* days from 2024-01-01 to the date: local midnights are compared and
\* moved by timedelta(days=n) through this number
Ordinal(dt) == DaysBeforeYear(dt.y) + DaysBeforeMonth(dt.y, dt.m) + (dt.d - 1)

\* datetime.weekday(): Monday = 0 ... Sunday = 6 (2024-01-01 is a Monday)
weekday(dt) == Ordinal(dt) % 7

\* datetime(year, month, 1, tzinfo=tz): ValueError outside the ranges
ValidYearMonth(y, m) == y \in 1..9999 /\ m \in 1..12

\* datetime.strptime(s, "%Y-%m-%d") on the date strings of the inputs; a
\* string outside the table raises ValueError
StrptimeTable ==
  [s \in {"2025-08-04", "2025-08-05", "2025-08-06", "2025-08-07",
          "2025-08-08", "2025-08-09", "2025-08-10", "2024-02-28",
          "2024-12-29", "2024-12-31", "2025-12-31"} |->
     CASE s = "2025-08-04" -> Date(2025, 8, 4)
       [] s = "2025-08-05" -> Date(2025, 8, 5)
       [] s = "2025-08-06" -> Date(2025, 8, 6)
       [] s = "2025-08-07" -> Date(2025, 8, 7)
       [] s = "2025-08-08" -> Date(2025, 8, 8)
       [] s = "2025-08-09" -> Date(2025, 8, 9)
       [] s = "2025-08-10" -> Date(2025, 8, 10)
       [] s = "2024-02-28" -> Date(2024, 2, 28)
       [] s = "2024-12-29" -> Date(2024, 12, 29)
       [] s = "2024-12-31" -> Date(2024, 12, 31)
       [] s = "2025-12-31" -> Date(2025, 12, 31)]

\* the date strings offered to the window functions: those of the table
\* and three that strptime rejects
DateStrings ==
  DOMAIN StrptimeTable \cup {"08/08/2025", "2025-08-32", "2025-02-29"}

\* a resolved window: local midnights start and end as day numbers
Window(s, e) == [raised |-> FALSE, start |-> s, end |-> e]
WindowRaised == [raised |-> TRUE, start |-> 0, end |-> 0]
NoWindow == [raised |-> FALSE, start |-> -1, end |-> -1]

\* strptime of a date argument that is not None
parses(v) == v.t = "str" /\ v.s \in DOMAIN StrptimeTable

\* get_daily_sales_report up to its fetch: today when date is None, then
\* _local_date_to_utc_window
daily_window(date, today) ==
  IF date.t = "null" THEN Window(Ordinal(today), Ordinal(today) + 1)
  ELSE IF ~parses(date) THEN WindowRaised
  ELSE Window(Ordinal(StrptimeTable[date.s]),
              Ordinal(StrptimeTable[date.s]) + 1)

\* mutant of week_end: the end is the midnight that opens the Sunday
week_end_opening_sunday(s, w) == s + (6 - w)

\* end_local of get_weekly_sales_report for start_local on day number s of
\* weekday w
week_end(s, w) == s + ((6 - w) + 1)

\* get_weekly_sales_report up to its fetch
weekly_window(start_date, today) ==
  IF start_date.t = "null"
  THEN Window(Ordinal(today), week_end(Ordinal(today), weekday(today)))
  ELSE IF ~parses(start_date) THEN WindowRaised
  ELSE Window(Ordinal(StrptimeTable[start_date.s]),
              week_end(Ordinal(StrptimeTable[start_date.s]),
                       weekday(StrptimeTable[start_date.s])))

\* `year or now_local.year`, `month or now_local.month`
or_default(v, dflt) == IF Truthy(v) THEN v.n ELSE dflt

\* mutant of month_end: the current month is not clamped
month_end_unclamped(y, m, today) ==
  IF m = 12 THEN Ordinal(Date(y + 1, 1, 1)) ELSE Ordinal(Date(y, m + 1, 1))

\* end_local of get_monthly_sales_report for the resolved year and month
month_end(y, m, today) ==
  IF y = today.y /\ m = today.m THEN Ordinal(today) + 1
  ELSE IF m = 12 THEN Ordinal(Date(y + 1, 1, 1))
  ELSE Ordinal(Date(y, m + 1, 1))

\* get_monthly_sales_report on its resolved year and month
month_window(y, m, today) ==
  IF ~ValidYearMonth(y, m) THEN WindowRaised
  ELSE Window(Ordinal(Date(y, m, 1)), month_end(y, m, today))

\* get_monthly_sales_report up to its fetch; a truthy year or month that
\* is not an integer raises TypeError in datetime(...)
monthly_window(year, month, today) ==
  IF (Truthy(year) /\ year.t # "num") \/ (Truthy(month) /\ month.t # "num")
  THEN WindowRaised
  ELSE month_window(or_default(year, today.y), or_default(month, today.m),
                    today)

\* mutant of fetch_window: an unknown period is served as daily, and the
\* weekly start date is not parsed
fetch_window_lenient(p, kw, today) ==
  CASE p = "weekly" -> weekly_window(Null, today)
    [] p = "monthly" -> monthly_window(kw.year, kw.month, today)
    [] OTHER -> daily_window(kw.date, today)

\* _fetch_sales_data up to the fetch: the window of the period, or the
\* ValueError of an unknown period
fetch_window(p, kw, today) ==
  CASE p = "daily" -> daily_window(kw.date, today)
    [] p = "weekly" -> weekly_window(kw.start_date, today)
    [] p = "monthly" -> monthly_window(kw.year, kw.month, today)
    [] OTHER -> WindowRaised

\* the local date of the runs whose clock is not an input
Today == Date(2025, 8, 8)

\* the dates the clock of the window functions is drawn from
Nows ==
  {dt \in [y : Years, m : 1..12, d : {1, 15, 28, 29, 30, 31}] :
     dt.d <= DaysInMonth(dt.y, dt.m)}

\* ------------------------------------------------------------------------
\* Period parameters
\* ------------------------------------------------------------------------
\* kwargs of generate_report; year and month are plain integers in Num
Kwargs(d, s, y, m) == [date |-> d, start_date |-> s, year |-> y, month |-> m]

KwargsSet ==
  {Kwargs(Null, Null, Null, Null),
   Kwargs(Str("2025-08-08"), Str("2025-08-04"), Num(2025), Num(7)),
   Kwargs(Str("08/08/2025"), Str("2025-08-32"), Num(2025), Num(13))}

Periods == {"daily", "weekly", "monthly", "yearly"}

\* the strings datetime.strptime(x, "%Y-%m-%d") parses
ParsableDates == DOMAIN StrptimeTable

\* TRUE when resolving the window raises before any request is made:
\* strptime in _local_date_to_utc_window / get_weekly_sales_report,
\* datetime(year, month, 1) in get_monthly_sales_report, the else branch of
\* _fetch_sales_data
window_raises(p, kw) ==
  CASE p = "daily" ->
         kw.date.t # "null" /\ ~(kw.date.t = "str" /\ kw.date.s \in ParsableDates)
    [] p = "weekly" ->
         kw.start_date.t # "null"
         /\ ~(kw.start_date.t = "str" /\ kw.start_date.s \in ParsableDates)
    [] p = "monthly" ->
         \/ (Truthy(kw.month) /\ ~(kw.month.t = "num" /\ kw.month.n \in 1..12))
         \/ (Truthy(kw.year) /\ ~(kw.year.t = "num" /\ kw.year.n \in 1..9999))
    [] OTHER -> TRUE

\* ------------------------------------------------------------------------
\* Report construction
\* ------------------------------------------------------------------------
\* length of the tuple _calculate_metrics returns
CalcReturnLen == 4
\* number of names _process_sales_data unpacks that tuple into
UnpackTargets == 5

BlankFormatted == format_totals(BlankTotals)

BlankReport ==
  [raw_count |-> 0, unique_count |-> 0, status_counts |-> {},
   state_counts |-> {}, filtered_count |-> 0, totals |-> BlankFormatted,
   daily |-> [d \in {} |-> blank_bucket],
   sum_sale_total_price |-> 0, sum_sale_total_tax |-> 0,
   lightspeed_request_url |-> <<>>]

\* mutant of build_report: the histograms are taken over the filtered sales
build_report_filtered(sales, unique, filtered, fmt, daily, ls_sales, ls_tax, us) ==
  [raw_count |-> Len(sales), unique_count |-> Len(unique),
   status_counts |-> CounterOf(filtered, "status"),
   state_counts |-> CounterOf(filtered, "state"),
   filtered_count |-> Len(filtered), totals |-> fmt, daily |-> daily,
   sum_sale_total_price |-> Round2(ls_sales),
   sum_sale_total_tax |-> Round2(ls_tax),
   lightspeed_request_url |-> SubSeq(us, 1, IF Len(us) > 0 THEN 1 ELSE 0)]

\* the dict both pipelines return; the request URL is the first one issued,
\* named here by its offset, or None (the empty sequence)
build_report(sales, unique, filtered, fmt, daily, ls_sales, ls_tax, us) ==
  [raw_count |-> Len(sales), unique_count |-> Len(unique),
   status_counts |-> CounterOf(unique, "status"),
   state_counts |-> CounterOf(unique, "state"),
   filtered_count |-> Len(filtered), totals |-> fmt, daily |-> daily,
   sum_sale_total_price |-> Round2(ls_sales),
   sum_sale_total_tax |-> Round2(ls_tax),
   lightspeed_request_url |-> SubSeq(us, 1, IF Len(us) > 0 THEN 1 ELSE 0)]

\* the locals both pipelines compute from the fetched sales, in the order
\* the code computes them: dedup, filter, accumulation, finalisation
WithUnique(sales) == [sales |-> sales, unique |-> dedup(sales)]
WithFiltered(x) ==
  [sales |-> x.sales, unique |-> x.unique, filtered |-> filter_sales(x.unique)]
WithAcc(x) ==
  [sales |-> x.sales, unique |-> x.unique, filtered |-> x.filtered,
   acc |-> accumulate(x.filtered)]
WithMetrics(x) ==
  [sales |-> x.sales, unique |-> x.unique, filtered |-> x.filtered,
   acc |-> x.acc, metrics |-> finish_metrics(x.acc)]
Locals(sales) == WithMetrics(WithAcc(WithFiltered(WithUnique(sales))))

Raised(x, msg) ==
  [raised |-> TRUE, error |-> msg, unique |-> x.unique,
   filtered |-> x.filtered, metrics |-> x.metrics, report |-> BlankReport]
Returned(x, rep) ==
  [raised |-> FALSE, error |-> "", unique |-> x.unique,
   filtered |-> x.filtered, metrics |-> x.metrics, report |-> rep]

\* _process_sales_data on its locals x: the tuple of _calculate_metrics is
\* unpacked into UnpackTargets names before the report is built
process_locals(x, us) ==
  IF x.metrics.raised
  THEN Raised(x, "'int' object has no attribute 'replace'")
  ELSE IF CalcReturnLen # UnpackTargets
  THEN Raised(x, "not enough values to unpack (expected 5, got 4)")
  ELSE Returned(x, build_report(x.sales, x.unique, x.filtered,
                                format_totals(x.metrics.totals),
                                x.metrics.daily, x.metrics.ls_net_sales_sum,
                                x.metrics.ls_net_tax_sum, us))

\* _process_sales_data: [raised, error, unique, filtered, metrics, report]
process_sales_data(sales, us) == process_locals(Locals(sales), us)

\* totals of get_sales: net is derived from the accumulators before they
\* are rounded, gross and returns are the rounded accumulators
get_sales_totals(acc) ==
  [format_totals(round_totals(acc)) EXCEPT
     !.net = [sales |-> Round2(acc.gross_sales + acc.returns_sales),
              tax |-> Round2(acc.gross_tax + acc.returns_tax),
              cost |-> Round2(acc.gross_cost + acc.returns_cost),
              profit |-> Round2((acc.gross_sales + acc.returns_sales)
                                - (acc.gross_cost + acc.returns_cost))]]

\* body of get_sales after the fetch, on its locals x
get_sales_locals(x, us) ==
  IF x.acc.raised
  THEN Raised(x, "'int' object has no attribute 'replace'")
  ELSE Returned(x, build_report(x.sales, x.unique, x.filtered,
                                get_sales_totals(x.acc.totals),
                                x.metrics.daily, x.acc.ls_net_sales_sum,
                                x.acc.ls_net_tax_sum, us))

get_sales_body(sales, us) == get_sales_locals(Locals(sales), us)

\* the pipeline of entry point e on what _paged_search_sales returned
pipeline(e, x, us) ==
  IF e = "generate_report" THEN process_locals(x, us)
  ELSE get_sales_locals(x, us)

\* ------------------------------------------------------------------------
\* State
\* ------------------------------------------------------------------------
VARIABLES
  pc,             \* "idle", "fetch" (inside _paged_search_sales), "done"
  entry,          \* "generate_report" or "get_sales" once called
  period,         \* period argument of generate_report
  kwargs,         \* its keyword arguments
  source,         \* records the external source holds for the interval
  offset,         \* _paged_search_sales: offset
  all_items,      \* _paged_search_sales: all_items
  urls,           \* _paged_search_sales: urls, each named by its offset
  iter,           \* passes of `for _ in range(max_pages)` begun so far
  requests,       \* requests sent to the external source
  sales_unique,   \* local of the pipeline: the deduplicated sales
  filtered_sales, \* local of the pipeline: the sales the filter kept
  metrics,        \* what _calculate_metrics returned
  result,         \* what the entry point returned: [kind, status_code, error]
  report,         \* the report object when result.kind = "report"
  last_status,    \* status code of the last response, 0 before the first
  last_offset,    \* offset parameter of the last request
  now,            \* local date of datetime.now(tz)
  window          \* local midnights [start, end) the entry point resolved

VARIABLES
  line_prices,    \* total_price of the lines of one sale, in input order
  float_gross,    \* totals["gross_sales"] in cents once rounded, -1 before
  webhooks,       \* the webhooks the remote service holds, in list order
  wh_writes,      \* the POST and PUT requests ensure_webhook has issued
  wh_call,        \* the last call of ensure_webhook and what it did
  row,            \* the database row: [name, updated_at]
  instance,       \* each caller's in-memory instance of the row
  saves,          \* the saves CRUD.update has committed, oldest first
  clock,          \* the database clock auto_now reads
  runs,           \* the locals of each of two concurrent report requests
  data_json       \* content of the file data.json, <<>> before any write

\* the state outside the single report request
others ==
  <<line_prices, float_gross, webhooks, wh_writes, wh_call, row, instance,
    saves, clock, runs, data_json>>

vars ==
  <<pc, entry, period, kwargs, source, offset, all_items, urls, iter,
    requests, sales_unique, filtered_sales, metrics, result, report,
    last_status, last_offset, now, window, others>>

NoResult == [kind |-> "none", status_code |-> 0, error |-> ""]
ErrorObject(msg, code) == [kind |-> "error", status_code |-> code, error |-> msg]
ReportObject == [kind |-> "report", status_code |-> 200, error |-> ""]

\* non-success statuses of the external source other than 429
ErrorStatuses == {401, 500, 503}

\* ensure_webhook has not been called yet
NoCall ==
  [n |-> 0, topic |-> "", url |-> "", active |-> FALSE, listed |-> FALSE,
   write |-> "none", ok |-> FALSE]

\* the two callers of CRUD.update and an instance not loaded yet
Callers == {"A", "B"}
NotLoaded ==
  [loaded |-> FALSE, name |-> "", updated_at |-> 0, outcome |-> "none"]

\* the database row before any update: saved once, at time 1
FirstRow == [name |-> "v0", updated_at |-> 1]

\* the two concurrent report requests and the locals of one not started
RunIds == {1, 2}
IdleRun ==
  [pc |-> "idle", entry |-> "none", source |-> <<>>, offset |-> 0,
   all_items |-> <<>>, urls |-> <<>>, iter |-> 0, result |-> NoResult,
   unique |-> <<>>, filtered |-> <<>>, metrics |-> BlankMetrics,
   report |-> BlankReport]

FloatIdle == line_prices = <<>> /\ float_gross = -1
WebhookIdle == webhooks = <<>> /\ wh_writes = <<>> /\ wh_call = NoCall
CrudIdle ==
  /\ row = FirstRow
  /\ instance = [c \in Callers |-> NotLoaded]
  /\ saves = <<>>
  /\ clock = 1
RunsIdle == runs = [r \in RunIds |-> IdleRun] /\ data_json = <<>>

\* nothing outside the single report request has happened
OthersIdle == FloatIdle /\ WebhookIdle /\ CrudIdle /\ RunsIdle

\* no single report request is under way
PipelineIdle ==
  /\ pc = "idle"
  /\ entry = "none"
  /\ period = ""
  /\ kwargs = Kwargs(Null, Null, Null, Null)
  /\ source = <<>>
  /\ offset = 0
  /\ all_items = <<>>
  /\ urls = <<>>
  /\ iter = 0
  /\ requests = 0
  /\ sales_unique = <<>>
  /\ filtered_sales = <<>>
  /\ metrics = BlankMetrics
  /\ result = NoResult
  /\ report = BlankReport
  /\ last_status = 0
  /\ last_offset = 0
  /\ now = Today
  /\ window = NoWindow

\* the single report request stays as it is
pipeline_vars ==
  <<pc, entry, period, kwargs, source, offset, all_items, urls, iter,
    requests, sales_unique, filtered_sales, metrics, result, report,
    last_status, last_offset, now, window>>

Init ==
  /\ OthersIdle
  /\ pc = "idle"
  /\ entry = "none"
  /\ period = ""
  /\ kwargs = Kwargs(Null, Null, Null, Null)
  /\ source \in Datasets
  /\ offset = 0
  /\ all_items = <<>>
  /\ urls = <<>>
  /\ iter = 0
  /\ requests = 0
  /\ sales_unique = <<>>
  /\ filtered_sales = <<>>
  /\ metrics = BlankMetrics
  /\ result = NoResult
  /\ report = BlankReport
  /\ last_status = 0
  /\ last_offset = 0
  /\ now = Today
  /\ window = NoWindow

\* mutant of Caught: the handler catches ValueError only
CaughtValueErrorOnly(msg) ==
  IF msg \in {"ValueError", "Invalid period",
              "not enough values to unpack (expected 5, got 4)"}
  THEN ErrorObject(msg, 500)
  ELSE [kind |-> "raised", status_code |-> 0, error |-> msg]

\* `except Exception` of generate_report and of get_sales: the exception
\* becomes an error object with status 500
Caught(msg) == ErrorObject(msg, 500)

\* mutant of Abort: the exception is swallowed and the sales gathered so
\* far are reported
AbortWithPartialReport(msg) ==
  /\ pc' = "done"
  /\ result' = ReportObject
  /\ sales_unique' = dedup(all_items)
  /\ filtered_sales' = filter_sales(dedup(all_items))
  /\ UNCHANGED <<metrics, report>>

\* an exception raised before or during the fetch
Abort(msg) ==
  /\ pc' = "done"
  /\ result' = Caught(msg)
  /\ UNCHANGED <<sales_unique, filtered_sales, metrics, report>>

\* status_code every _AggregatedResponse of the three fetch functions has
AggregatedStatus == 200

\* what the entry point returns for the outcome r of its pipeline body;
\* the body runs when the status of the aggregated response is 200
outcome(r) ==
  IF AggregatedStatus # 200
  THEN ErrorObject("Failed to retrieve sales data", AggregatedStatus)
  ELSE IF r.raised THEN Caught(r.error) ELSE ReportObject

\* _paged_search_sales has returned: r is what the rest of the entry point
\* computes from the items and urls
Return(r) ==
  /\ pc' = "done"
  /\ sales_unique' = r.unique
  /\ filtered_sales' = r.filtered
  /\ metrics' = r.metrics
  /\ report' = r.report
  /\ result' = outcome(r)

\* generate_report(period, **kwargs) up to its first request
generate_report ==
  /\ UNCHANGED others
  /\ pc = "idle"
  /\ \E p \in Periods, kw \in KwargsSet :
       /\ entry' = "generate_report"
       /\ period' = p
       /\ kwargs' = kw
       /\ window' = fetch_window(p, kw, now)
       /\ IF window'.raised
          THEN Abort(IF p \in {"daily", "weekly", "monthly"}
                     THEN "ValueError"
                     ELSE "Invalid period")
          ELSE /\ pc' = "fetch"
               /\ UNCHANGED <<sales_unique, filtered_sales, metrics, result,
                              report>>
  /\ UNCHANGED <<source, offset, all_items, urls, iter, requests,
                 last_status, last_offset, now>>

\* get_sales up to its first request: get_monthly_sales_report(2025, 7)
get_sales ==
  /\ UNCHANGED others
  /\ pc = "idle"
  /\ entry' = "get_sales"
  /\ period' = "monthly"
  /\ kwargs' = Kwargs(Null, Null, Num(2025), Num(7))
  /\ window' = monthly_window(Num(2025), Num(7), now)
  /\ pc' = "fetch"
  /\ UNCHANGED <<source, offset, all_items, urls, iter, requests,
                 sales_unique, filtered_sales, metrics, result, report,
                 last_status, last_offset, now>>

\* mutant of Response429: the rate-limited pass advances the offset
Response429AdvancesOffset ==
  /\ UNCHANGED others
  /\ pc = "fetch"
  /\ iter < MaxPages
  /\ iter' = iter + 1
  /\ requests' = requests + 1
  /\ last_status' = 429
  /\ last_offset' = offset
  /\ offset' = offset + PageSize
  /\ UNCHANGED <<entry, period, kwargs, source, all_items, urls, now, window>>
  /\ IF iter + 1 = MaxPages
     THEN Return(pipeline(entry, Locals(all_items), urls))
     ELSE UNCHANGED <<pc, sales_unique, filtered_sales, metrics, result,
                      report>>

\* a pass of the loop whose response is 429: sleep, continue
Response429 ==
  /\ UNCHANGED others
  /\ pc = "fetch"
  /\ iter < MaxPages
  /\ iter' = iter + 1
  /\ requests' = requests + 1
  /\ last_status' = 429
  /\ last_offset' = offset
  /\ UNCHANGED <<entry, period, kwargs, source, offset, all_items, urls,
                 now, window>>
  /\ IF iter + 1 = MaxPages
     THEN Return(pipeline(entry, Locals(all_items), urls))
     ELSE UNCHANGED <<pc, sales_unique, filtered_sales, metrics, result,
                      report>>

\* a pass whose response is another 4xx/5xx: raise_for_status raises
ResponseError ==
  /\ UNCHANGED others
  /\ pc = "fetch"
  /\ iter < MaxPages
  /\ \E st \in ErrorStatuses : last_status' = st /\ Abort("HTTPError")
  /\ last_offset' = offset
  /\ iter' = iter + 1
  /\ requests' = requests + 1
  /\ UNCHANGED <<entry, period, kwargs, source, offset, all_items, urls,
                 now, window>>

\* mutant of ResponsePage: the loop stops after any page, full or not
ResponsePageStopsOnFull ==
  /\ UNCHANGED others
  /\ pc = "fetch"
  /\ iter < MaxPages
  /\ all_items' = all_items \o PageOf(source, offset, PageSize)
  /\ urls' = Append(urls, offset)
  /\ iter' = iter + 1
  /\ requests' = requests + 1
  /\ offset' = offset
  /\ Return(pipeline(entry,
                     Locals(all_items \o PageOf(source, offset, PageSize)),
                     Append(urls, offset)))
  /\ last_status' = 200
  /\ last_offset' = offset
  /\ UNCHANGED <<entry, period, kwargs, source, now, window>>

\* mutant of ResponsePage: the offset counts pages, not records
ResponsePageOffsetCountsPages ==
  /\ UNCHANGED others
  /\ pc = "fetch"
  /\ iter < MaxPages
  /\ all_items' = all_items \o PageOf(source, offset, PageSize)
  /\ urls' = Append(urls, offset)
  /\ iter' = iter + 1
  /\ requests' = requests + 1
  /\ IF Len(PageOf(source, offset, PageSize)) < PageSize
     THEN offset' = offset
     ELSE offset' = offset + 1
  /\ IF Len(PageOf(source, offset, PageSize)) < PageSize \/ iter + 1 = MaxPages
     THEN Return(pipeline(entry,
                          Locals(all_items \o PageOf(source, offset, PageSize)),
                          Append(urls, offset)))
     ELSE UNCHANGED <<pc, sales_unique, filtered_sales, metrics, result,
                      report>>
  /\ last_status' = 200
  /\ last_offset' = offset
  /\ UNCHANGED <<entry, period, kwargs, source, now, window>>

\* mutant of ResponsePage: a short page does not end the loop
ResponsePageNoBreak ==
  /\ UNCHANGED others
  /\ pc = "fetch"
  /\ iter < MaxPages
  /\ all_items' = all_items \o PageOf(source, offset, PageSize)
  /\ urls' = Append(urls, offset)
  /\ iter' = iter + 1
  /\ requests' = requests + 1
  /\ offset' = offset + Len(PageOf(source, offset, PageSize))
  /\ IF iter + 1 = MaxPages
     THEN Return(pipeline(entry,
                          Locals(all_items \o PageOf(source, offset, PageSize)),
                          Append(urls, offset)))
     ELSE UNCHANGED <<pc, sales_unique, filtered_sales, metrics, result,
                      report>>
  /\ last_status' = 200
  /\ last_offset' = offset
  /\ UNCHANGED <<entry, period, kwargs, source, now, window>>

\* a pass whose response is a page of records
ResponsePage ==
  /\ UNCHANGED others
  /\ pc = "fetch"
  /\ iter < MaxPages
  /\ LET items == PageOf(source, offset, PageSize)
         got == all_items \o items
         us == Append(urls, offset)
     IN  /\ all_items' = got
         /\ urls' = us
         /\ iter' = iter + 1
         /\ requests' = requests + 1
         /\ IF Len(items) < PageSize
            THEN offset' = offset
            ELSE offset' = offset + Len(items)
         /\ IF Len(items) < PageSize \/ iter + 1 = MaxPages
            THEN Return(pipeline(entry, Locals(got), us))
            ELSE UNCHANGED <<pc, sales_unique, filtered_sales, metrics,
                             result, report>>
  /\ last_status' = 200
  /\ last_offset' = offset
  /\ UNCHANGED <<entry, period, kwargs, source, now, window>>

Next ==
  \/ generate_report
  \/ get_sales
  \/ Response429
  \/ ResponseError
  \/ ResponsePage

Spec == Init /\ [][Next]_vars

\* ------------------------------------------------------------------------
\* The fetcher on sources of several pages
\* ------------------------------------------------------------------------
\* largest number of records a source of the fetcher runs holds
MaxRecords == 6

\* the k-th record of a source: a COMPLETED sale of identifier k
Record(k) == Sale(Num(k), Completed, Closed, D1, Num(100000), Num(8000), <<LineA>>)

\* a source of n distinct records, in the order the source returns them
SourceOf(n) == [k \in 1..n |-> Record(k)]

FetchSources == {SourceOf(n) : n \in 0..MaxRecords}

FetchInit ==
  /\ OthersIdle
  /\ pc = "idle"
  /\ entry = "none"
  /\ period = ""
  /\ kwargs = Kwargs(Null, Null, Null, Null)
  /\ source \in FetchSources
  /\ offset = 0
  /\ all_items = <<>>
  /\ urls = <<>>
  /\ iter = 0
  /\ requests = 0
  /\ sales_unique = <<>>
  /\ filtered_sales = <<>>
  /\ metrics = BlankMetrics
  /\ result = NoResult
  /\ report = BlankReport
  /\ last_status = 0
  /\ last_offset = 0
  /\ now = Today
  /\ window = NoWindow

FetchSpec == FetchInit /\ [][Next]_vars

\* ------------------------------------------------------------------------
\* The window functions on their own, over the calendar of the inputs
\* ------------------------------------------------------------------------
\* arguments offered as date / start_date
DateArgs == {Null} \cup {Str(s) : s \in DateStrings}

\* arguments offered as year and as month
YearArgs == {Null, Num(0), Str("2025")} \cup {Num(y) : y \in Years}
MonthArgs == {Null, Str("7")} \cup {Num(m) : m \in 0..13}

WindowInit ==
  /\ OthersIdle
  /\ pc = "idle"
  /\ entry = "none"
  /\ period = ""
  /\ kwargs = Kwargs(Null, Null, Null, Null)
  /\ source = <<>>
  /\ offset = 0
  /\ all_items = <<>>
  /\ urls = <<>>
  /\ iter = 0
  /\ requests = 0
  /\ sales_unique = <<>>
  /\ filtered_sales = <<>>
  /\ metrics = BlankMetrics
  /\ result = NoResult
  /\ report = BlankReport
  /\ last_status = 0
  /\ last_offset = 0
  /\ now \in Nows
  /\ window = NoWindow

\* a window function called with keyword arguments kw has resolved its
\* window w and stands before its call of _paged_search_sales
Resolved(fn, p, kw, w) ==
  /\ UNCHANGED others
  /\ pc' = "window"
  /\ entry' = fn
  /\ period' = p
  /\ kwargs' = kw
  /\ window' = w
  /\ UNCHANGED <<source, offset, all_items, urls, iter, requests,
                 sales_unique, filtered_sales, metrics, result, report,
                 last_status, last_offset, now>>

get_daily_sales_report ==
  /\ pc = "idle"
  /\ \E d \in DateArgs :
       Resolved("get_daily_sales_report", "daily",
                Kwargs(d, Null, Null, Null), daily_window(d, now))

get_weekly_sales_report ==
  /\ pc = "idle"
  /\ \E s \in DateArgs :
       Resolved("get_weekly_sales_report", "weekly",
                Kwargs(Null, s, Null, Null), weekly_window(s, now))

get_monthly_sales_report ==
  /\ pc = "idle"
  /\ \E y \in YearArgs, m \in MonthArgs :
       Resolved("get_monthly_sales_report", "monthly",
                Kwargs(Null, Null, y, m), monthly_window(y, m, now))

WindowNext ==
  \/ get_daily_sales_report
  \/ get_weekly_sales_report
  \/ get_monthly_sales_report

WindowSpec == WindowInit /\ [][WindowNext]_vars

\* ------------------------------------------------------------------------
\* Floating-point accumulation of one total
\* ------------------------------------------------------------------------
\* _money returns a Python float and the accumulators add floats. A binary
\* floating-point number is modelled as the count of grid units 2^-FracBits
\* it holds, with a significand of MantissaBits bits (Python's has 53);
\* every operation rounds its exact result to the nearest such number, a
\* tie to the one whose significand is even.
MantissaBits == 10
FracBits == 12

RECURSIVE Pow2(_)
Pow2(k) == IF k = 0 THEN 1 ELSE 2 * Pow2(k - 1)

RECURSIVE BitLength(_)
BitLength(m) == IF m = 0 THEN 0 ELSE 1 + BitLength(m \div 2)

\* the multiple of q nearest to num / den, a tie to the even multiple
RoundToEven(num, den, q) ==
  LET lo == (num \div (den * q)) * q
      twice == 2 * (num - lo * den)
  IN  IF twice < q * den THEN lo
      ELSE IF twice > q * den THEN lo + q
      ELSE IF (lo \div q) % 2 = 0 THEN lo ELSE lo + q

\* distance between neighbouring floats at magnitude n grid units
Spacing(n) ==
  IF n < Pow2(MantissaBits) THEN 1
  ELSE Pow2(BitLength(n) - MantissaBits)

\* the float nearest to num / den grid units
to_float(num, den) == RoundToEven(num, den, Spacing(num \div den))

\* _money(x) of a non-negative amount of d thousandths: float(x)
money_float(d) == to_float(d * Pow2(FracBits), 1000)

\* a += b on floats
float_add(a, b) == to_float(a + b, 1)

\* round(v, 2) of a float, in cents
round_float(v) == RoundToEven(v * 100, Pow2(FracBits), 1)

\* totals["gross_sales"] += price over the first i lines, from 0.0
RECURSIVE acc_totals_float(_, _)
acc_totals_float(prices, i) ==
  IF i = 0 THEN 0
  ELSE float_add(acc_totals_float(prices, i - 1), money_float(prices[i]))

\* totals["gross_sales"] as _calculate_metrics returns it
gross_sales_float(prices) ==
  round_float(acc_totals_float(prices, Len(prices)))

\* total_price of the gross lines offered, in thousandths
LinePrices == {100, 200, 580, 1332, 1433}

\* most lines of the sale
MaxLines == 3

FloatInit ==
  /\ PipelineIdle
  /\ WebhookIdle
  /\ CrudIdle
  /\ RunsIdle
  /\ line_prices \in UNION {[1..n -> LinePrices] : n \in 1..MaxLines}
  /\ float_gross = -1

\* _calculate_metrics over one sale of gross lines
calculate_metrics_float ==
  /\ float_gross = -1
  /\ float_gross' = gross_sales_float(line_prices)
  /\ UNCHANGED <<line_prices, webhooks, wh_writes, wh_call, row, instance,
                 saves, clock, runs, data_json>>
  /\ UNCHANGED pipeline_vars

FloatSpec == FloatInit /\ [][calculate_metrics_float]_vars


\* ------------------------------------------------------------------------
\* Webhook registration (middleware/lightspeed_shopify.py)
\* ------------------------------------------------------------------------
\* most calls of ensure_webhook in a run
MaxCalls == 3

Topics == {"sale.update", "product.update"}
Urls == {"https://shop.example/hooks/a/", "https://shop.example/hooks/b/"}

\* a webhook dict as the code reads it: wh["id"], wh.get("type"),
\* wh.get("url"), wh.get("active"), Null for a key the dict lacks
Webhook(id, type, url, active) ==
  [id |-> id, type |-> type, url |-> url, active |-> active]

\* None of find_webhook_by_type; also how a dict without any of the four
\* keys reads
NoWebhook == Webhook(Null, Null, Null, Null)

\* JSON bodies of GET webhooks: a bare list, a dict holding the list under
\* `key`, or a dict holding no list (the body of an error response)
ListBody(items) == [shape |-> "list", key |-> "", items |-> items]
DictBody(key, items) == [shape |-> "dict", key |-> key, items |-> items]

\* the bodies the remote service may answer GET webhooks with while it
\* holds `store`; create_lightspeed_request does not check the status
ListResponses(store) ==
  {ListBody(store), DictBody("data", store), DictBody("error", <<>>)}

\* list_webhooks: the list, the list under "webhooks" or "data", or as the
\* last resort the dict itself as the only element
list_webhooks(data) ==
  IF data.shape = "list" THEN data.items
  ELSE IF data.key \in {"webhooks", "data"} THEN data.items
  ELSE <<NoWebhook>>

\* find_webhook_by_type: the first webhook of the type, or None
RECURSIVE FindFrom(_, _, _)
FindFrom(whs, topic, i) ==
  IF i > Len(whs) THEN NoWebhook
  ELSE IF whs[i].type = Str(topic) THEN whs[i]
  ELSE FindFrom(whs, topic, i + 1)

find_webhook_by_type(data, topic) == FindFrom(list_webhooks(data), topic, 1)

\* what the remote service holds after POST webhooks; a request that
\* fails changes nothing
create_webhook(store, topic, url, active, ok) ==
  IF ok
  THEN Append(store, Webhook(Num(Len(store) + 1), Str(topic), Str(url),
                             Bool(active)))
  ELSE store

\* what the remote service holds after PUT webhooks/{id}
update_webhook(store, id, url, active, ok) ==
  IF ok
  THEN [i \in DOMAIN store |->
          IF store[i].id = id
          THEN Webhook(id, store[i].type, Str(url), Bool(active))
          ELSE store[i]]
  ELSE store

needs_update(current, url, active) ==
  (current.url # Str(url)) \/ (Truthy(current.active) # active)

\* the write ensure_webhook issues for what find_webhook_by_type returned
write_of(current, url, active) ==
  IF current = NoWebhook THEN "POST"
  ELSE IF needs_update(current, url, active) THEN "PUT"
  ELSE "none"

\* webhooks the remote service may hold before the first call
InitialStores ==
  {<<>>} \cup {<<Webhook(Num(1), Str(t), Str(u), a)>> :
                 t \in Topics, u \in Urls, a \in {Bool(TRUE), Bool(FALSE), Null}}

WebhookInit ==
  /\ PipelineIdle
  /\ FloatIdle
  /\ CrudIdle
  /\ RunsIdle
  /\ webhooks \in InitialStores
  /\ wh_writes = <<>>
  /\ wh_call = NoCall

\* one call ensure_webhook(topic, url, active): the list request answered
\* by `data`, then at most one write, which succeeds or not
ensure_webhook ==
  /\ wh_call.n < MaxCalls
  /\ \E topic \in Topics, url \in Urls, active \in BOOLEAN,
        data \in ListResponses(webhooks), ok \in BOOLEAN :
       LET current == find_webhook_by_type(data, topic)
           write == write_of(current, url, active)
       IN  /\ webhooks' =
                CASE write = "POST" ->
                       create_webhook(webhooks, topic, url, active, ok)
                  [] write = "PUT" ->
                       update_webhook(webhooks, current.id, url, active, ok)
                  [] OTHER -> webhooks
           /\ wh_writes' =
                IF write = "none" THEN wh_writes
                ELSE Append(wh_writes,
                            [method |-> write, topic |-> topic, url |-> url,
                             active |-> active, ok |-> ok])
           /\ wh_call' =
                [n |-> wh_call.n + 1, topic |-> topic, url |-> url,
                 active |-> active, listed |-> data.key # "error",
                 write |-> write, ok |-> (write = "none" \/ ok)]
  /\ UNCHANGED <<line_prices, float_gross, row, instance, saves, clock,
                 runs, data_json>>
  /\ UNCHANGED pipeline_vars

WebhookSpec == WebhookInit /\ [][ensure_webhook]_vars


\* ------------------------------------------------------------------------
\* CRUD.update with optimistic concurrency (core/crud.py)
\* ------------------------------------------------------------------------
\* most saves committed in a run
MaxSaves == 2

\* values a caller writes into the field `name`
FieldValues == {"vA", "vB"}

\* expected_version arguments: None (0) or a timestamp
Versions == 0..(MaxSaves + 1)

CrudInit ==
  /\ PipelineIdle
  /\ FloatIdle
  /\ WebhookIdle
  /\ RunsIdle
  /\ row = FirstRow
  /\ instance = [c \in Callers |-> NotLoaded]
  /\ saves = <<>>
  /\ clock = 1

\* CRUD.get(pk=...): caller c loads the row into an instance of its own
get(c) ==
  /\ instance' = [instance EXCEPT ![c] =
                    [loaded |-> TRUE, name |-> row.name,
                     updated_at |-> row.updated_at, outcome |-> "none"]]
  /\ UNCHANGED <<row, saves, clock>>

\* the optimistic check of CRUD.update: expected_version is compared with
\* updated_at of the instance passed in
version_conflict(inst, expected_version) ==
  /\ expected_version # 0
  /\ inst.updated_at # 0
  /\ inst.updated_at # expected_version

\* CRUD.update(instance, {"name": v}, expected_version=ev) by caller c:
\* the check, then setattr, then instance.save(), which writes every field
\* of the instance to the row with updated_at = now (auto_now)
update(c) ==
  /\ instance[c].loaded
  /\ clock <= MaxSaves
  /\ \E v \in FieldValues, ev \in Versions :
       IF version_conflict(instance[c], ev)
       THEN /\ instance' = [instance EXCEPT ![c].outcome = "ConcurrencyConflict"]
            /\ UNCHANGED <<row, saves, clock>>
       ELSE /\ clock' = clock + 1
            /\ row' = [name |-> v, updated_at |-> clock + 1]
            /\ instance' = [instance EXCEPT ![c] =
                              [loaded |-> TRUE, name |-> v,
                               updated_at |-> clock + 1, outcome |-> "saved"]]
            /\ saves' = Append(saves,
                               [caller |-> c, name |-> v,
                                expected_version |-> ev,
                                loaded_version |-> instance[c].updated_at,
                                row_version |-> row.updated_at,
                                row_name |-> row.name])

CrudNext ==
  /\ \E c \in Callers : get(c) \/ update(c)
  /\ UNCHANGED <<line_prices, float_gross, webhooks, wh_writes, wh_call,
                 runs, data_json>>
  /\ UNCHANGED pipeline_vars

CrudSpec == CrudInit /\ [][CrudNext]_vars


\* ------------------------------------------------------------------------
\* Two report requests in flight at once
\* ------------------------------------------------------------------------
\* Every name the fetcher and the pipeline assign is a local of the call;
\* the file data.json, which _process_sales_data writes and nothing reads,
\* is the one thing two calls touch in common.

\* what the external source holds for the interval of a request
RunSources ==
  {<<SaleA>>, <<SaleB>>, <<SaleA, SaleB>>,
   <<SaleB, SaleA, Sale(Str("b"), Completed, Closed, D2, Num(12), Num(8),
                        <<LineS1, LineS2>>)>>}

RunsInit ==
  /\ PipelineIdle
  /\ FloatIdle
  /\ WebhookIdle
  /\ CrudIdle
  /\ runs \in [RunIds -> {[IdleRun EXCEPT !.source = src] : src \in RunSources}]
  /\ data_json = <<>>

\* request r enters generate_report or get_sales and reaches the fetch loop
RunStart(r) ==
  /\ runs[r].pc = "idle"
  /\ \E e \in {"generate_report", "get_sales"} :
       runs' = [runs EXCEPT ![r].pc = "fetch", ![r].entry = e]
  /\ UNCHANGED data_json

\* a pass of r's fetch loop answered 429: the pass is used up
RunRateLimited(r) ==
  /\ runs[r].pc = "fetch"
  /\ runs[r].iter < MaxPages
  /\ runs' = [runs EXCEPT
                ![r].iter = @ + 1,
                ![r].pc = IF runs[r].iter + 1 = MaxPages
                          THEN "fetched" ELSE "fetch"]
  /\ UNCHANGED data_json

\* a pass answered with another error status: raise_for_status raises and
\* the entry point returns the error object
RunError(r) ==
  /\ runs[r].pc = "fetch"
  /\ runs[r].iter < MaxPages
  /\ runs' = [runs EXCEPT ![r].iter = @ + 1, ![r].pc = "done",
                          ![r].result = Caught("HTTPError")]
  /\ UNCHANGED data_json

\* a pass answered with a page of r's source
RunPage(r) ==
  /\ runs[r].pc = "fetch"
  /\ runs[r].iter < MaxPages
  /\ LET items == PageOf(runs[r].source, runs[r].offset, PageSize)
     IN  runs' = [runs EXCEPT
                    ![r].all_items = @ \o items,
                    ![r].urls = Append(@, runs[r].offset),
                    ![r].iter = @ + 1,
                    ![r].offset = IF Len(items) < PageSize
                                  THEN @ ELSE @ + Len(items),
                    ![r].pc = IF Len(items) < PageSize
                                 \/ runs[r].iter + 1 = MaxPages
                              THEN "fetched" ELSE "fetch"]
  /\ UNCHANGED data_json

\* the locals of r once the pipeline body has run on the sales `sales`
Processed_run(x, sales) ==
  LET out == pipeline(x.entry, Locals(sales), x.urls)
  IN  [x EXCEPT !.pc = "done", !.result = outcome(out),
                !.unique = out.unique, !.filtered = out.filtered,
                !.metrics = out.metrics, !.report = out.report]

\* mutant of RunProcess: the sales are gathered in a list all requests share
RunProcessSharedList(r) ==
  /\ runs[r].pc = "fetched"
  /\ runs' = [runs EXCEPT ![r] =
                Processed_run(runs[r],
                              runs[1].all_items \o runs[2].all_items)]
  /\ data_json' = IF runs[r].entry = "generate_report"
                  THEN runs[r].all_items ELSE data_json

\* r's fetch has returned: generate_report writes what it fetched to
\* data.json; then dedup, filter, accumulation and formatting on r's locals
RunProcess(r) ==
  /\ runs[r].pc = "fetched"
  /\ runs' = [runs EXCEPT ![r] = Processed_run(runs[r], runs[r].all_items)]
  /\ data_json' = IF runs[r].entry = "generate_report"
                  THEN runs[r].all_items ELSE data_json

RunsNext ==
  /\ \E r \in RunIds :
       \/ RunStart(r)
       \/ RunRateLimited(r)
       \/ RunError(r)
       \/ RunPage(r)
       \/ RunProcess(r)
  /\ UNCHANGED <<line_prices, float_gross, webhooks, wh_writes, wh_call,
                 row, instance, saves, clock>>
  /\ UNCHANGED pipeline_vars

RunsSpec == RunsInit /\ [][RunsNext]_vars


\* ------------------------------------------------------------------------
\* Vocabulary of the properties
\* ------------------------------------------------------------------------
Range(seq) == {seq[i] : i \in 1..Len(seq)}

\* the exceptions raised before _paged_search_sales returns
RaisedBeforeReturn == {"HTTPError", "ValueError", "Invalid period"}

\* the entry point is over and its fetch returned, so the pipeline ran on
\* all_items
Processed == pc = "done" /\ result.error \notin RaisedBeforeReturn

\* every request of the run was answered with a page
AllRequestsSucceeded == requests > 0 /\ requests = Len(urls)

Abs(v) == IF v < 0 THEN -v ELSE v

MoneyKeys == {"sales", "tax", "cost", "profit"}

RECURSIVE SumDaily(_, _, _)
SumDaily(daily, days, k) ==
  IF days = {} THEN 0
  ELSE LET d == CHOOSE x \in days : TRUE
       IN  daily[d][k] + SumDaily(daily, days \ {d}, k)

\* the fetched records without those of sale identifier id
WithoutId(sales, id) == SelectSeq(sales, LAMBDA s : s.id # id)

\* the fetched records without the one at position i
RemoveAt(sales, i) == SubSeq(sales, 1, i - 1) \o SubSeq(sales, i + 1, Len(sales))

\* the results a run reports: the filtered set and its count, and the
\* totals, day buckets with their sale counts and cross-check sums
SameResults(x) ==
  /\ Range(x.filtered) = Range(filtered_sales)
  /\ Len(x.filtered) = Len(filtered_sales)
  /\ x.metrics = metrics

\* every amount of every line of the sales is a whole number of cents
WholeCents(sales) ==
  \A i \in 1..Len(sales) : \A j \in 1..Len(sales[i].line_items) :
    LET it == sales[i].line_items[j]
    IN  /\ money(it.total_price) % 10 = 0
        /\ money(it.total_tax) % 10 = 0
        /\ money(it.total_cost) % 10 = 0

\* ------------------------------------------------------------------------
\* Properties
\* ------------------------------------------------------------------------
\* C1: for a recognised period with valid parameters, when every page
\* request succeeds, generate_report returns a report object and not an
\* error object.
C1_ReportWhenFetchSucceeds ==
  (/\ pc = "done"
   /\ entry = "generate_report"
   /\ ~window_raises(period, kwargs)
   /\ AllRequestsSucceeded)
  => result.kind = "report"

\* one of the three exclusion rules of the filter applies to the sale
C2_Excluded(s) ==
  \/ IsStr(s.status, "SAVED") \/ IsStr(s.status, "VOIDED")
  \/ (IsStr(s.status, "ONACCOUNT_CLOSED") /\ ~IsStr(s.state, "closed"))
  \/ IsStr(s.state, "voided")

C3_DroppedSaleContributesNothing ==
  Processed =>
    \A s \in Range(sales_unique) :
      (IsStr(s.status, "VOIDED") \/ s \notin Range(filtered_sales)) =>
        /\ s \notin Range(filtered_sales)
        /\ SameResults(Locals(WithoutId(all_items, s.id)))

\* C3 witness: a VOIDED sale was fetched next to a sale that counts
C3_Witness ==
  /\ Processed
  /\ \E s \in Range(sales_unique) : IsStr(s.status, "VOIDED")
  /\ Len(filtered_sales) >= 1
  /\ ~metrics.raised
  /\ metrics.totals.gross_sales > 0

\* the totals of the end-to-end scenario
C4_Expected ==
  [gross |-> [sales |-> 100000, tax |-> 8000, cost |-> 60000, profit |-> 40000],
   returns |-> [sales |-> -50000, tax |-> -4000, cost |-> -30000,
                profit |-> -20000],
   net |-> [sales |-> 50000, tax |-> 4000, cost |-> 30000, profit |-> 20000],
   total_discount |-> 0, return_lines_seen |-> 1, negative_lines_seen |-> 1]

\* C4: when the fetched data is exactly sale A and sale B of the
\* scenario, generate_report returns a report whose totals are gross
\* (100, 8, 60, 40), returns (-50, -4, -30, -20), net (50, 4, 30, 20),
\* return_lines_seen 1 and negative_lines_seen 1.
C4_ScenarioTotals ==
  (/\ pc = "done"
   /\ entry = "generate_report"
   /\ AllRequestsSucceeded
   /\ all_items = <<SaleA, SaleB>>)
  => (result.kind = "report" /\ report.totals = C4_Expected)

\* C5: generate_report returns a report object or an error object with an
\* integer status code and a message; no exception leaves it.
C5_NoExceptionEscapes ==
  (pc = "done" /\ entry = "generate_report") =>
    \/ result.kind = "report"
    \/ /\ result.kind = "error"
       /\ result.status_code \in Int
       /\ result.error # ""

\* C5 witness: the external source answered with an error status, the
\* exception was raised inside generate_report and an error object returned
C5_Witness ==
  /\ pc = "done"
  /\ entry = "generate_report"
  /\ requests >= 2
  /\ result = ErrorObject("HTTPError", 500)

\* the identities of one day bucket, each up to the tolerance tol
BucketNetWithin(b, tol) ==
  /\ Abs(b.net_sales - (b.gross_sales + b.returns_sales)) <= tol
  /\ Abs(b.net_tax - (b.gross_tax + b.returns_tax)) <= tol
  /\ Abs(b.net_cost - (b.gross_cost + b.returns_cost)) <= tol
  /\ Abs(b.net_profit - (b.net_sales - b.net_cost)) <= tol

\* the day buckets were computed and returned by _calculate_metrics
HasBuckets == Processed /\ ~metrics.raised

\* C6 as claimed: in every day bucket as returned, after rounding,
\* net_sales = gross_sales + returns_sales, likewise tax and cost, and
\* net_profit = net_sales - net_cost.
C6_RoundedBucketNetExact ==
  HasBuckets =>
    \A d \in DOMAIN metrics.daily : BucketNetWithin(metrics.daily[d], 0)

\* C6 as amended: in every day bucket as returned each of the four
\* identities holds up to one cent, and exactly when every line amount of
\* the filtered sales is a whole number of cents; before rounding the
\* identities hold exactly.
C6_BucketNetWithinOneCent ==
  HasBuckets =>
    /\ \A d \in DOMAIN metrics.daily :
         /\ BucketNetWithin(metrics.daily[d], 10)
         /\ WholeCents(filtered_sales) => BucketNetWithin(metrics.daily[d], 0)
    /\ \A d \in DOMAIN accumulate(filtered_sales).daily :
         BucketNetWithin(finalize_bucket(accumulate(filtered_sales).daily[d]), 0)

\* C6 witness: a returned bucket with gross and returns lines whose rounded
\* net_sales is one cent away from gross_sales + returns_sales
C6_Witness ==
  /\ HasBuckets
  /\ \E d \in DOMAIN metrics.daily :
       LET b == metrics.daily[d]
       IN  /\ b.gross_sales > 0 /\ b.returns_sales > 0
           /\ b.gross_sales + b.returns_sales - b.net_sales = 10

\* C7: in the global totals net.X = gross.X + returns.X for X among sales,
\* tax, cost and profit; in particular net.profit = gross.profit +
\* returns.profit.  The totals are those _format_totals builds from the
\* totals _calculate_metrics returned.
C7_TotalsNetIsGrossPlusReturns ==
  HasBuckets =>
    LET f == format_totals(metrics.totals)
    IN  \A k \in MoneyKeys : f.net[k] = f.gross[k] + f.returns[k]

\* the gross and returns metrics of a bucket and of the totals
GrossReturnsKeys ==
  {"gross_sales", "gross_tax", "gross_cost", "gross_profit",
   "returns_sales", "returns_tax", "returns_cost", "returns_profit"}

BucketSumsWithin(m, tol) ==
  \A k \in GrossReturnsKeys :
    Abs(SumDaily(m.daily, DOMAIN m.daily, k) - m.totals[k])
      <= tol * Cardinality(DOMAIN m.daily)

IdenticalOnId(sales, id) ==
  /\ Cardinality({k \in 1..Len(sales) : sales[k].id = id}) >= 2
  /\ \A k \in 1..Len(sales), l \in 1..Len(sales) :
       (sales[k].id = id /\ sales[l].id = id) => sales[k] = sales[l]

\* C9: the run on a fetched list in which sale identifiers repeat gives the
\* filtered set, totals, day buckets, counts and cross-check sums of the
\* run on the deduplicated list; when the records of an identifier are
\* identical, it gives those of the run on the list with any one of them
\* removed; no identifier occurs twice in the filtered set.
C9_DedupIdempotent ==
  Processed =>
    /\ SameResults(Locals(sales_unique))
    /\ Locals(sales_unique).unique = sales_unique
    /\ \A i \in 1..Len(all_items), j \in 1..Len(all_items) :
         (/\ i < j
          /\ all_items[i] = all_items[j]
          /\ IdenticalOnId(all_items, all_items[i].id)) =>
           /\ SameResults(Locals(RemoveAt(all_items, i)))
           /\ SameResults(Locals(RemoveAt(all_items, j)))
    /\ \A i \in 1..Len(filtered_sales), j \in 1..Len(filtered_sales) :
         i # j => KeyOf(filtered_sales[i].id) # KeyOf(filtered_sales[j].id)

\* C9 witness: a sale identifier fetched twice, kept by the filter and
\* counted
C9_Witness ==
  /\ HasBuckets
  /\ \E i \in 1..Len(all_items), j \in 1..Len(all_items) :
       /\ i < j
       /\ all_items[i] = all_items[j]
       /\ IdenticalOnId(all_items, all_items[i].id)
       /\ \E s \in Range(filtered_sales) : s.id = all_items[i].id
  /\ metrics.totals.gross_sales > 0

\* sale_date is missing, or is not a timestamp fromisoformat parses
DateMissingOrUnparsable(v) ==
  ~(v.t = "str" /\ v.s \in DOMAIN IsoHours)

\* C10: a filtered sale whose sale_date is missing or unparsable raises
\* nothing and is not dropped: the aggregation returns, with a day bucket
\* "unknown" that holds the lines of those sales.
C10_UnknownBucketNeverRaises ==
  Processed =>
    ((\E s \in Range(filtered_sales) : DateMissingOrUnparsable(s.sale_date))
       => /\ ~metrics.raised
          /\ "unknown" \in DOMAIN metrics.daily
          /\ metrics.daily["unknown"].count_sales_net
               = Cardinality({s \in Range(filtered_sales) :
                                /\ DateMissingOrUnparsable(s.sale_date)
                                /\ Len(s.line_items) > 0}))

\* a date string was supplied for the period and strptime rejects it
SuppliedDateUnparsable(p, kw) ==
  \/ p = "daily" /\ kw.date.t = "str" /\ kw.date.s \notin ParsableDates
  \/ p = "weekly" /\ kw.start_date.t = "str"
       /\ kw.start_date.s \notin ParsableDates

\* C11: when the period kind is not daily, weekly or monthly, or a supplied
\* date string does not parse, generate_report has returned an error
\* object, never a report, and no request was sent to the external source.
C11_InvalidInputFailsWithoutRequest ==
  (/\ entry = "generate_report"
   /\ \/ period \notin {"daily", "weekly", "monthly"}
      \/ SuppliedDateUnparsable(period, kwargs))
  => /\ pc = "done"
     /\ result.kind = "error"
     /\ requests = 0
     /\ urls = <<>>

\* C11 witness: generate_report was called for a week starting on
\* "2025-08-32" and returned the error object of the ValueError
C11_Witness ==
  /\ entry = "generate_report"
  /\ period = "weekly"
  /\ kwargs.start_date = Str("2025-08-32")
  /\ result = ErrorObject("ValueError", 500)
  /\ requests = 0

\* C12: when the external source answers a page request with a
\* non-success status S other than 429, the error object generate_report
\* returns has status_code S.
C12_ErrorCarriesUpstreamStatus ==
  (/\ pc = "done"
   /\ entry = "generate_report"
   /\ last_status \in ErrorStatuses)
  => /\ result.kind = "error"
     /\ result.status_code = last_status

\* C13: a non-success, non-429 response on any page aborts the fetch: the
\* entry point returns an error, and nothing was computed from the records
\* gathered before it (no deduplicated or filtered set, no metrics, no
\* report).
C13_UpstreamErrorDiscardsPartial ==
  (pc = "done" /\ last_status \in ErrorStatuses)
  => /\ result.kind = "error"
     /\ sales_unique = <<>>
     /\ filtered_sales = <<>>
     /\ metrics = BlankMetrics
     /\ report = BlankReport

\* C13 witness: the error response came after two successful full pages
C13_Witness ==
  /\ pc = "done"
  /\ last_status \in ErrorStatuses
  /\ Len(urls) >= 2
  /\ Len(all_items) >= 2 * PageSize
  /\ result.kind = "error"

\* C14: a pass answered 429 leaves offset, all_items and urls as they
\* were, and the request that follows a 429 response carries the offset of
\* the rate-limited request.
C14_RateLimitedRetrySameOffset ==
  [][/\ (last_status' = 429 /\ requests' = requests + 1)
          => (offset' = offset /\ all_items' = all_items /\ urls' = urls)
     /\ (last_status = 429 /\ requests' = requests + 1)
          => last_offset' = last_offset]_vars

\* C14 witness: a 429 response was followed by a request that returned a
\* page at a positive offset
C14_Witness ==
  /\ last_status = 200
  /\ requests > Len(urls)
  /\ Len(urls) >= 2
  /\ last_offset > 0

\* the last page the fetcher received had fewer records than page_size
LastPageShort ==
  /\ Len(urls) > 0
  /\ Len(all_items) - urls[Len(urls)] < PageSize

\* C15: 429 responses use up none of the max_pages budget: the fetch
\* returns only after a page shorter than page_size or after max_pages
\* pages were fetched.
C15_RateLimitKeepsPageBudget ==
  Processed => (LastPageShort \/ Len(urls) = MaxPages)

\* C16: when the loop ends on a 429 response with its budget used up, the
\* fetch raises an upstream error and the entry point returns the error
\* object of that error: the pipeline does not run on the records gathered
\* so far.
C16_ExhaustedByRateLimitIsError ==
  (pc = "done" /\ iter = MaxPages /\ last_status = 429)
  => /\ result.kind = "error"
     /\ result.error \in RaisedBeforeReturn

\* C17: when the source holds fewer than page_size * max_pages records and
\* every request is answered with a page, the fetch returns the records of
\* the source, each once, in source order.
C17_CompleteFetch ==
  (/\ Processed
   /\ AllRequestsSucceeded
   /\ Len(source) < PageSize * MaxPages)
  => all_items = source

\* C17 witness: a source of exactly two full pages was fetched whole, the
\* third request returning the empty page
C17_Witness ==
  /\ Processed
  /\ AllRequestsSucceeded
  /\ Len(source) = 2 * PageSize
  /\ requests = 3
  /\ all_items = source

\* the last response was a page with fewer records than page_size
ShortPageReceived ==
  last_status = 200 /\ Len(all_items) - last_offset < PageSize

\* C18: the fetch loop terminates: at most max_pages requests are sent,
\* a page shorter than page_size ends the run at once, every pass of the
\* loop, whatever its response, uses one of the max_pages passes, the run
\* has ended when they are used up, and no request is sent after the run
\* has ended.
C18_FetchTerminates ==
  /\ [](requests <= MaxPages /\ iter <= MaxPages)
  /\ [](ShortPageReceived => pc = "done")
  /\ [](iter = MaxPages => pc = "done")
  /\ [][pc = "fetch" => (iter' = iter + 1 /\ requests' = requests + 1)]_vars
  /\ [][pc = "done" => requests' = requests]_vars

\* C18 witness: a run ended by the budget after a mix of 429 responses and
\* full pages
C18_Witness ==
  /\ Processed
  /\ requests = MaxPages
  /\ Len(urls) \in 1..(MaxPages - 1)
  /\ ~LastPageShort

\* a window function has resolved the window of period p without raising
WindowOf(p) == pc = "window" /\ period = p /\ ~window.raised

\* the year and the month a monthly request names: the current ones when
\* the argument is missing or 0
RequestedYear == IF kwargs.year \in {Null, Num(0)} THEN now.y ELSE kwargs.year.n
RequestedMonth ==
  IF kwargs.month \in {Null, Num(0)} THEN now.m ELSE kwargs.month.n

\* C19: the monthly window starts at local midnight of the 1st of the
\* requested month; it ends at local midnight of the 1st of the next month
\* (the month's natural end, in January of the next year for December)
\* unless the requested month is the current month, when it ends at
\* tomorrow's local midnight; that end is not after the natural end, and
\* the window of the current or of a past month holds no day after today.
C19_MonthlyWindow ==
  WindowOf("monthly") =>
    LET y == RequestedYear
        m == RequestedMonth
        first == Ordinal(Date(y, m, 1))
        natural == first + DaysInMonth(y, m)
        tomorrow == Ordinal(now) + 1
    IN  /\ window.start = first
        /\ window.start < window.end
        /\ IF y = now.y /\ m = now.m
           THEN window.end = tomorrow /\ window.end <= natural
           ELSE window.end = natural
        /\ (y < now.y \/ (y = now.y /\ m <= now.m)) => window.end <= tomorrow
        /\ m = 12 => natural = Ordinal(Date(y + 1, 1, 1))

\* C19 witness: on a 15 December the current month was requested and the
\* window ends tomorrow, before the 1 January
C19_Witness ==
  /\ WindowOf("monthly")
  /\ now.m = 12 /\ now.d = 15
  /\ kwargs.year = Num(now.y) /\ kwargs.month = Num(12)
  /\ window.end = Ordinal(now) + 1
  /\ window.end < Ordinal(Date(now.y + 1, 1, 1))

\* the date a weekly request starts on: today when none is given
WeekStart ==
  IF kwargs.start_date = Null THEN now ELSE StrptimeTable[kwargs.start_date.s]

RECURSIVE AllLines(_, _)
AllLines(sales, i) ==
  IF i > Len(sales) THEN <<>>
  ELSE sales[i].line_items \o AllLines(sales, i + 1)

\* a line is a return line: its return flag is true or one of its quantity,
\* price, tax and cost is negative
ReturnsLine(it) ==
  \/ is_true(it.is_return)
  \/ money(it.quantity) < 0 \/ money(it.total_price) < 0
  \/ money(it.total_tax) < 0 \/ money(it.total_cost) < 0

\* sum of the amount `field` over the lines of the wanted classification
\* ("gross", "returns", or "all")
RECURSIVE SumLines(_, _, _, _)
SumLines(lines, i, want, field) ==
  IF i > Len(lines) THEN 0
  ELSE (IF \/ want = "all"
           \/ (want = "returns") = ReturnsLine(lines[i])
        THEN money(lines[i][field]) ELSE 0)
       + SumLines(lines, i + 1, want, field)

\* C24: every line of a filtered sale is classified returns when its return
\* flag is true or one of quantity, total_price, total_tax, total_cost is
\* negative, and gross otherwise; the gross accumulators hold the price,
\* tax and cost of the gross lines only, the returns accumulators those of
\* the return lines only, and total_discount holds the discount of every
\* line.
C24_LinesClassifiedOnce ==
  HasBuckets =>
    LET t == accumulate(filtered_sales).totals
        L == AllLines(filtered_sales, 1)
    IN  /\ \A i \in 1..Len(L) :
             kind_of(L[i]) = (IF ReturnsLine(L[i]) THEN "returns" ELSE "gross")
        /\ t.gross_sales = SumLines(L, 1, "gross", "total_price")
        /\ t.gross_tax = SumLines(L, 1, "gross", "total_tax")
        /\ t.gross_cost = SumLines(L, 1, "gross", "total_cost")
        /\ t.returns_sales = SumLines(L, 1, "returns", "total_price")
        /\ t.returns_tax = SumLines(L, 1, "returns", "total_tax")
        /\ t.returns_cost = SumLines(L, 1, "returns", "total_cost")
        /\ t.total_discount = SumLines(L, 1, "all", "total_discount")

\* C24 witness: a line with no return flag whose only negative amount is
\* its tax was added, with its positive price, to the returns
C24_Witness ==
  /\ HasBuckets
  /\ \E s \in Range(filtered_sales) : LineNegTax \in Range(s.line_items)
  /\ accumulate(filtered_sales).totals.returns_sales > 0
  /\ accumulate(filtered_sales).totals.gross_sales > 0
  /\ accumulate(filtered_sales).totals.total_discount > 0

\* the day key of a filtered sale whose date does not raise
DayOf(s) ==
  IF to_local_dt(IF Truthy(s.sale_date) THEN s.sale_date ELSE Str("")).none
  THEN "unknown"
  ELSE DayKey(to_local_dt(s.sale_date).local)

\* C25: in every day bucket count_sales_gross is the number of filtered
\* sales of that day with at least one gross line and count_sales_net the
\* number of those with at least one line; hence count_sales_gross <=
\* count_sales_net, and the count_sales_net of all buckets sum to at most
\* filtered_count.
C25_SaleCounts ==
  HasBuckets =>
    /\ \A d \in DOMAIN metrics.daily :
         /\ metrics.daily[d].count_sales_gross
              = Cardinality({i \in 1..Len(filtered_sales) :
                   /\ DayOf(filtered_sales[i]) = d
                   /\ \E it \in Range(filtered_sales[i].line_items) :
                        ~ReturnsLine(it)})
         /\ metrics.daily[d].count_sales_net
              = Cardinality({i \in 1..Len(filtered_sales) :
                   /\ DayOf(filtered_sales[i]) = d
                   /\ Len(filtered_sales[i].line_items) > 0})
         /\ metrics.daily[d].count_sales_gross
              <= metrics.daily[d].count_sales_net
    /\ SumDaily(metrics.daily, DOMAIN metrics.daily, "count_sales_net")
         <= Len(filtered_sales)

\* C25 witness: a bucket that counts a sale of return lines only next to a
\* sale with a gross line
C25_Witness ==
  /\ HasBuckets
  /\ \E d \in DOMAIN metrics.daily :
       /\ metrics.daily[d].count_sales_gross = 1
       /\ metrics.daily[d].count_sales_net = 2

\* C26: the offset cursor is 0 before the first request; every request
\* carries as offset the number of records accumulated so far; the offset
\* changes only on a successful full page, by the number of records that
\* page returned.
C26_OffsetIsRecordCount ==
  /\ [](pc = "idle" => offset = 0)
  /\ [](pc = "fetch" => offset = Len(all_items))
  /\ [][requests' = requests + 1 => last_offset' = Len(all_items)]_vars
  /\ [][offset' # offset =>
          /\ last_status' = 200
          /\ offset' - offset = Len(all_items') - Len(all_items)
          /\ offset' - offset = PageSize]_vars

\* C26 witness: the third request was sent with the offset of two full
\* pages and answered with a page
C26_Witness ==
  /\ requests = 3
  /\ last_status = 200
  /\ last_offset = 2 * PageSize
  /\ Len(urls) = 3

\* C27: every monetary figure of the report is its full-precision
\* accumulator rounded once: each bucket figure, each gross and returns
\* total and each totals.net figure equals Round2 of the unrounded sum it
\* stands for.
C27_RoundedOnce ==
  HasBuckets =>
    LET acc == accumulate(filtered_sales)
        f == format_totals(metrics.totals)
    IN  /\ \A d \in DOMAIN metrics.daily :
             metrics.daily[d] = round_bucket(finalize_bucket(acc.daily[d]))
        /\ f.gross.sales = Round2(acc.totals.gross_sales)
        /\ f.returns.sales = Round2(acc.totals.returns_sales)
        /\ f.gross.profit = Round2(acc.totals.gross_profit)
        /\ f.returns.profit = Round2(acc.totals.returns_profit)
        /\ f.net.sales
             = Round2(acc.totals.gross_sales + acc.totals.returns_sales)
        /\ f.net.tax = Round2(acc.totals.gross_tax + acc.totals.returns_tax)
        /\ f.net.cost = Round2(acc.totals.gross_cost + acc.totals.returns_cost)
        /\ f.net.profit
             = Round2((acc.totals.gross_sales + acc.totals.returns_sales)
                      - (acc.totals.gross_cost + acc.totals.returns_cost))

\* the fetched records that have a truthy id
WithTruthyId(sales) == SelectSeq(sales, LAMBDA s : Truthy(s.id))

\* C29: a fetched sale whose id is missing, null, empty or 0 is not in the
\* deduplicated set; the deduplicated set, the filtered set, the totals,
\* buckets and cross-check sums are those of the run on the fetched records
\* without such sales, and so are the counts and histograms of a returned
\* report, except raw_count, which counts every fetched record.
C29_FalsyIdOnlyInRawCount ==
  Processed =>
    /\ \A s \in Range(sales_unique) : Truthy(s.id)
    /\ Locals(WithTruthyId(all_items)).unique = sales_unique
    /\ SameResults(Locals(WithTruthyId(all_items)))
    /\ result.kind = "report" =>
         /\ report.raw_count = Len(all_items)
         /\ report
              = [get_sales_body(WithTruthyId(all_items), urls).report
                   EXCEPT !.raw_count = Len(all_items)]

\* C29 witness: a report was returned for fetched records of which one has
\* a falsy id and one is counted
C29_Witness ==
  /\ Processed
  /\ result.kind = "report"
  /\ \E s \in Range(all_items) : ~Truthy(s.id)
  /\ report.raw_count = 2
  /\ report.unique_count = 1
  /\ report.filtered_count = 1

\* sum of the counts of a histogram
RECURSIVE CounterTotal(_)
CounterTotal(c) ==
  IF c = {} THEN 0
  ELSE LET e == CHOOSE x \in c : TRUE
       IN  e[2] + CounterTotal(c \ {e})

\* the distinct truthy ids among the records, as dict keys
TruthyIds(sales) ==
  {KeyOf(sales[i].id) : i \in {j \in 1..Len(sales) : Truthy(sales[j].id)}}

\* C30: in every pipeline run filtered_count <= unique_count <= raw_count
\* and unique_count is the number of distinct truthy ids fetched; in a
\* returned report the counts are those and the values of status_counts and
\* of state_counts each sum to unique_count.
C30_CountsOrdered ==
  Processed =>
    /\ Len(filtered_sales) <= Len(sales_unique)
    /\ Len(sales_unique) <= Len(all_items)
    /\ Len(sales_unique) = Cardinality(TruthyIds(all_items))
    /\ result.kind = "report" =>
         /\ report.raw_count = Len(all_items)
         /\ report.unique_count = Len(sales_unique)
         /\ report.filtered_count = Len(filtered_sales)
         /\ CounterTotal(report.status_counts) = report.unique_count
         /\ CounterTotal(report.state_counts) = report.unique_count

\* C30 witness: a report whose three counts differ: a repeated id and a
\* sale the filter dropped
C30_Witness ==
  /\ Processed
  /\ result.kind = "report"
  /\ report.raw_count = 2
  /\ report.unique_count = 1
  /\ report.filtered_count = 0
  /\ CounterTotal(report.status_counts) = 1

\* the lines of the sale in the order q
Reordered(prices, q) == [i \in DOMAIN prices |-> prices[q[i]]]

\* C21: the aggregation is order-independent: every permutation of the
\* lines of a sale gives the same rounded gross_sales total
C21_OrderIndependent ==
  float_gross # -1 =>
    \A q \in Permutations(DOMAIN line_prices) :
      gross_sales_float(Reordered(line_prices, q)) = float_gross

\* the write the contract asks of a call with the arguments of call c
\* while the remote service holds store
ExpectedWrite(store, c) ==
  LET of_type == {i \in DOMAIN store : store[i].type = Str(c.topic)}
  IN  IF of_type = {} THEN "POST"
      ELSE IF \E i \in of_type :
                \/ store[i].url # Str(c.url)
                \/ Truthy(store[i].active) # c.active
           THEN "PUT"
      ELSE "none"

\* successful POST requests for webhooks of type t
Created(t) ==
  {i \in DOMAIN wh_writes :
     /\ wh_writes[i].method = "POST"
     /\ wh_writes[i].ok
     /\ wh_writes[i].topic = t}

\* C22: ensure_webhook is idempotent: it creates when no webhook of the type
\* exists, updates when one differs and otherwise writes nothing; a second
\* call with the same arguments after one that took effect issues no write;
\* and at most one webhook of a type is ever created
C22_Idempotent ==
  /\ [][wh_call'.n = wh_call.n + 1 =>
          wh_call'.write = ExpectedWrite(webhooks, wh_call')]_vars
  /\ [][(/\ wh_call.n > 0
         /\ wh_call.ok
         /\ wh_call'.n = wh_call.n + 1
         /\ wh_call'.topic = wh_call.topic
         /\ wh_call'.url = wh_call.url
         /\ wh_call'.active = wh_call.active) =>
          wh_writes' = wh_writes]_vars
  /\ [](\A t \in Topics : Cardinality(Created(t)) <= 1)

\* C23: update with expected_version detects concurrent modification: a
\* save with an expected version is committed only over the row version
\* the caller expected, so the caller that saves second fails instead of
\* overwriting the first one's change
C23_NoLostUpdate ==
  \A i \in DOMAIN saves :
    saves[i].expected_version # 0 =>
      saves[i].row_version = saves[i].expected_version

\* what request x returns when it runs alone and the source answers it as
\* it did: the pipeline of its entry point on the sales it fetched
Alone(x) == pipeline(x.entry, Locals(x.all_items), x.urls)

====
